---- MODULE Spec2Model ----
(***************************************************************************)
(* Isometric scene creator: the scene state held by SceneProvider          *)
(* (SceneContext.jsx), the drag resolver (useDragDrop.js), the coordinate  *)
(* transform (isometricUtils) and the localStorage gateway (sceneUtils).   *)
(*                                                                         *)
(* One action is one browser event: React batches the state updates of an  *)
(* event handler and renders once afterwards.  A callback made with        *)
(* useCallback keeps the values of the render in which its dependency list *)
(* last changed; the model keeps those captured values as state.           *)
(***************************************************************************)
EXTENDS Integers, Sequences, FiniteSets, TLC

\* ------------------------------------------------------------------ bounds
MaxClock == 2
MaxElements == 2
MaxHistoryIndex == 3
MaxPan == 20
MaxDragElements == 1
MaxCoord == 2
MaxRun == 2
MaxExports == 2
MaxExportLog == 3

\* ------------------------------------------------------- program constants
InitGridWidth == 10
InitGridHeight == 10
InitTileWidth == 64
InitTileHeight == 32
ZoomDen == 20
InitZoom == 20
MinZoom == 10
MaxZoom == 40
ZoomKeyStep == 2
WheelStep == 1
PanAmount == 20

VARIABLES
    elements,            \* useState([]) : the live element collection
    elementsUndefined,   \* TRUE when elements holds the JS value undefined
    elementsRef,         \* JS index of the history entry that is the very same
                         \* array object as elements, -1 when there is none
    history,             \* useState([]) : sequence of snapshots
    historyIndex,        \* useState(-1), JS index into history
    selectedElementId,
    sceneName,
    sceneModified,
    gridSize,
    tileSize,
    zoom,                \* in units of 1/ZoomDen
    offset,
    now,                 \* the reading of Date.now()
    removeElementIdx,    \* historyIndex as captured by removeElement's closure
    duplicateElementIdx, \* historyIndex as captured by duplicateElement's closure
    scenesIndex,         \* localStorage 'isometric-scenes-index'
    sceneSlots,          \* localStorage 'isometric-scene-<name>'
    showGrid,            \* useState(true)
    isDragging,          \* IsometricCanvas: a pan gesture is active
    dragStart,           \* IsometricCanvas: the pointer where the pan started
    startOffset,         \* IsometricCanvas: the offset when the pan started
    isExportModalOpen,   \* the export dialog is open
    exportFormat,        \* the format chosen in the export dialog
    pendingExports,      \* html2canvas calls that have not settled yet
    toast,               \* the status of the toast shown last, "" for none
    script               \* the calls made so far, each with the live
                         \* collection it left behind (kept by the
                         \* specifications that follow single calls)

vars == <<elements, elementsUndefined, elementsRef, history, historyIndex,
          selectedElementId, sceneName, sceneModified, gridSize, tileSize,
          zoom, offset, now, removeElementIdx, duplicateElementIdx,
          scenesIndex, sceneSlots, showGrid, isDragging, dragStart,
          startOffset, isExportModalOpen, exportFormat, pendingExports, toast,
          script>>

sceneVars == <<elements, elementsUndefined, elementsRef, history, historyIndex,
               selectedElementId, sceneName, sceneModified, gridSize, tileSize,
               removeElementIdx, duplicateElementIdx>>
viewVars == <<zoom, offset>>
storageVars == <<scenesIndex, sceneSlots>>
canvasVars == <<showGrid, isDragging, dragStart, startOffset>>
\* what an event of the scene leaves alone besides the variables it names
exportVars == <<isExportModalOpen, exportFormat, pendingExports, toast>>
idle == <<canvasVars, exportVars, script>>

\* ----------------------------------------------------------------- helpers
Min(a, b) == IF a < b THEN a ELSE b
Max(a, b) == IF a > b THEN a ELSE b

\* null, as held by selectedElementId
NULL == <<>>

\* Number.prototype.toString: the decimal digits of n, most significant first
RECURSIVE NumberToString(_)
NumberToString(n) ==
    IF n < 10 THEN <<n>> ELSE Append(NumberToString(n \div 10), n % 10)

\* Array.prototype.slice(0, end) for end >= 0
Slice0(arr, end) == SubSeq(arr, 1, Min(end, Len(arr)))

\* Array.prototype.filter / map / find over a sequence
RECURSIVE FilterOut(_, _)
FilterOut(arr, id) ==
    IF arr = <<>> THEN <<>>
    ELSE IF Head(arr).id # id
         THEN <<Head(arr)>> \o FilterOut(Tail(arr), id)
         ELSE FilterOut(Tail(arr), id)

Ids(arr) == {arr[i].id : i \in 1..Len(arr)}

\* elements.find(e => e.id === id): the first match
FindIndex(arr, id) ==
    IF id \in Ids(arr)
    THEN CHOOSE i \in 1..Len(arr) :
            arr[i].id = id /\ \A j \in 1..(i - 1) : arr[j].id # id
    ELSE 0

\* { ...element, ...updates }
Merge(element, updates) ==
    [f \in DOMAIN element |->
        IF f \in DOMAIN updates THEN updates[f] ELSE element[f]]

\* A map that merges the updates into every element, whatever its id
RECURSIVE MergeIntoEvery(_, _, _)
MergeIntoEvery(arr, id, updates) ==
    IF arr = <<>> THEN <<>>
    ELSE <<Merge(Head(arr), updates)>> \o MergeIntoEvery(Tail(arr), id, updates)

\* arr.map(e => e.id === id ? { ...e, ...updates } : e)
RECURSIVE MergeInto(_, _, _)
MergeInto(arr, id, updates) ==
    IF arr = <<>> THEN <<>>
    ELSE <<IF Head(arr).id = id THEN Merge(Head(arr), updates) ELSE Head(arr)>>
         \o MergeInto(Tail(arr), id, updates)

\* history[i] for a JS index i: the entry exists when 0 <= i < history.length
HasEntry(i) == 0 <= i /\ i < Len(history)
Entry(i) == history[i + 1]

\* The names under which scenes are saved
SlotNames == {"A", "B"}

\* What localStorage holds when the page opens: the scene that an earlier
\* session saved as "A", and nothing under "B".
StoredElement == [id |-> <<7>>, type |-> "road", position |-> [x |-> 1, y |-> 1],
                  rotation |-> 0, scale |-> 1]
\* The numbers of JavaScript that are not finite, and the null that JSON
\* writes in their place, as values apart from every number the model computes.
Infinity == 1000000000
NaN == 2000000000
JsonNull == 2000000002
IsFinite(v) == v # NaN /\ v # Infinity /\ v # -Infinity

\* v + k for a finite k; null counts as 0
JsPlus(v, k) ==
    IF v = JsonNull THEN k ELSE IF IsFinite(v) THEN v + k ELSE v

\* Math.min and Math.max: NaN as soon as an argument is NaN
MathMin(a, b) == IF a = NaN \/ b = NaN THEN NaN ELSE Min(a, b)
MathMax(a, b) == IF a = NaN \/ b = NaN THEN NaN ELSE Max(a, b)

\* JSON.stringify gives a text, in which a number that is not finite is
\* written as null; JSON.parse gives <<value>>, or <<>> where it throws on a
\* text that is not JSON.  A text is kept as the value that parsing it gives.
JsonNumber(v) == IF IsFinite(v) THEN v ELSE JsonNull
JsonElement(element) ==
    [element EXCEPT !.position = [x |-> JsonNumber(@.x), y |-> JsonNumber(@.y)],
                    !.rotation = JsonNumber(@),
                    !.scale = JsonNumber(@)]
JSONstringify(value) ==
    [parses |-> TRUE,
     data |-> [value EXCEPT !.elements =
                  IF @ = <<>> THEN <<>> ELSE [i \in 1..Len(@) |-> JsonElement(@[i])]]]
JSONparse(text) == IF text.parses THEN <<text.data>> ELSE <<>>

StoredBlob ==
    [version |-> "1.0.0", isArray |-> TRUE,
     elements |-> <<StoredElement>>,
     gridSize |-> <<[width |-> 10, height |-> 10]>>,
     tileSize |-> <<[width |-> 64, height |-> 32]>>]
StoredAtStart ==
    [index |-> <<[name |-> "A", preview |-> NULL]>>,
     slots |-> [n \in SlotNames |->
                  IF n = "A" THEN <<JSONstringify(StoredBlob)>> ELSE <<>>]]

\* ------------------------------------------------------------------- Init
\* The state after mount: the first render, then the initialisation effect
\* (history = [[]], historyIndex = 0).  The callbacks whose dependency lists
\* did not change since the first render still hold historyIndex = -1.
InitProgram ==
    /\ elements = <<>>
    /\ elementsUndefined = FALSE
    /\ elementsRef = -1
    /\ history = << <<>> >>
    /\ historyIndex = 0
    /\ selectedElementId = NULL
    /\ sceneName = "Untitled Scene"
    /\ sceneModified = FALSE
    /\ gridSize = [width |-> InitGridWidth, height |-> InitGridHeight]
    /\ tileSize = [width |-> InitTileWidth, height |-> InitTileHeight]
    /\ zoom = InitZoom
    /\ offset = [x |-> 0, y |-> 0]
    /\ now = 1
    /\ removeElementIdx = -1
    /\ duplicateElementIdx = -1
    /\ showGrid = TRUE
    /\ isDragging = FALSE
    /\ dragStart = [x |-> 0, y |-> 0]
    /\ startOffset = [x |-> 0, y |-> 0]
    /\ isExportModalOpen = FALSE
    /\ exportFormat = "png"
    /\ pendingExports = 0
    /\ toast = ""

InitScene ==
    /\ InitProgram
    /\ script = <<>>

Init ==
    /\ InitScene
    /\ scenesIndex = StoredAtStart.index
    /\ sceneSlots = StoredAtStart.slots

\* The render that follows an event: useCallback makes a new removeElement
\* when selectedElementId changed and a new duplicateElement when the elements
\* array object changed; the new closure sees the addToHistory of that render,
\* whose historyIndex is the current one.
Rerender(elementsObjectChanged) ==
    /\ removeElementIdx' =
          IF selectedElementId' # selectedElementId
          THEN historyIndex' ELSE removeElementIdx
    /\ duplicateElementIdx' =
          IF elementsObjectChanged THEN historyIndex' ELSE duplicateElementIdx

\* The first render's historyIndex, held by every callback with an empty
\* dependency list (addElement, updateElement, clearScene).
FirstRenderIdx == -1

\* addToHistory as called through a closure that captured historyIndex = idx
addToHistory(newElements, idx) ==
    /\ history' = Append(Slice0(history, idx + 1), newElements)
    /\ historyIndex' = historyIndex + 1

\* The tree is mounted: a render with elements undefined throws in
\* elements.map and React unmounts the application.
Mounted == ~elementsUndefined

\* -------------------------------------------------------- scene operations
addElement(element) ==
    LET newElements == Append(elements,
            [id |-> NumberToString(now), type |-> element.type,
             position |-> element.position, rotation |-> element.rotation,
             scale |-> element.scale])
    IN /\ elements' = newElements
       /\ addToHistory(newElements, FirstRenderIdx)
       /\ elementsRef' = Len(history') - 1
       /\ sceneModified' = TRUE
       /\ UNCHANGED <<elementsUndefined, selectedElementId, sceneName, gridSize, tileSize>>
       /\ Rerender(TRUE)

undo ==
    IF historyIndex > 0
    THEN /\ historyIndex' = historyIndex - 1
         /\ IF HasEntry(historyIndex - 1)
            THEN /\ elements' = Entry(historyIndex - 1)
                 /\ elementsUndefined' = FALSE
                 /\ elementsRef' = historyIndex - 1
            ELSE /\ elements' = <<>>
                 /\ elementsUndefined' = TRUE
                 /\ elementsRef' = -1
         /\ sceneModified' = TRUE
         /\ UNCHANGED <<history, selectedElementId, sceneName, gridSize, tileSize>>
         /\ Rerender(elementsUndefined' \/ elementsRef' # elementsRef)
    ELSE UNCHANGED sceneVars

redo ==
    IF historyIndex < Len(history) - 1
    THEN /\ historyIndex' = historyIndex + 1
         /\ elements' = Entry(historyIndex + 1)
         /\ elementsRef' = historyIndex + 1
         /\ sceneModified' = TRUE
         /\ UNCHANGED <<elementsUndefined, history, selectedElementId, sceneName, gridSize, tileSize>>
         /\ Rerender(elementsRef' # elementsRef)
    ELSE UNCHANGED sceneVars

updateElement(id, updates) ==
    LET newElements == MergeInto(elements, id, updates)
    IN /\ elements' = newElements
       /\ addToHistory(newElements, FirstRenderIdx)
       /\ elementsRef' = Len(history') - 1
       /\ sceneModified' = TRUE
       /\ UNCHANGED <<elementsUndefined, selectedElementId, sceneName, gridSize, tileSize>>
       /\ Rerender(TRUE)

removeElement(id) ==
    LET newElements == FilterOut(elements, id)
    IN /\ elements' = newElements
       /\ addToHistory(newElements, removeElementIdx)
       /\ elementsRef' = Len(history') - 1
       /\ sceneModified' = TRUE
       /\ selectedElementId' = IF selectedElementId = id THEN NULL ELSE selectedElementId
       /\ UNCHANGED <<elementsUndefined, sceneName, gridSize, tileSize>>
       /\ Rerender(TRUE)

\* addToHistory([]) and setElements([]) are given two different empty arrays
clearSceneUpdates ==
    /\ addToHistory(<<>>, FirstRenderIdx)
    /\ elements' = <<>>
    /\ elementsRef' = -1
    /\ selectedElementId' = NULL
    /\ UNCHANGED <<elementsUndefined, gridSize, tileSize>>
    /\ Rerender(TRUE)

clearScene ==
    /\ clearSceneUpdates
    /\ sceneModified' = TRUE
    /\ UNCHANGED sceneName

createNewScene ==
    /\ clearSceneUpdates
    /\ sceneName' = "Untitled Scene"
    /\ sceneModified' = FALSE
    /\ zoom' = InitZoom
    /\ offset' = [x |-> 0, y |-> 0]

duplicateElement(id) ==
    IF FindIndex(elements, id) = 0
    THEN UNCHANGED sceneVars
    ELSE LET elementToDuplicate == elements[FindIndex(elements, id)]
             newElement ==
                [elementToDuplicate EXCEPT
                    !.id = NumberToString(now),
                    !.position = [x |-> JsPlus(elementToDuplicate.position.x, 1),
                                  y |-> JsPlus(elementToDuplicate.position.y, 1)]]
             newElements == Append(elements, newElement)
         IN /\ elements' = newElements
            /\ addToHistory(newElements, duplicateElementIdx)
            /\ elementsRef' = Len(history') - 1
            /\ sceneModified' = TRUE
            /\ selectedElementId' = newElement.id
            /\ UNCHANGED <<elementsUndefined, sceneName, gridSize, tileSize>>
            /\ Rerender(TRUE)

\* selectElement that also records the selection as a history entry
selectElementRecorded(id) ==
    /\ selectedElementId' = id
    /\ addToHistory(elements, historyIndex)
    /\ UNCHANGED <<elements, elementsUndefined, elementsRef,
                   sceneName, sceneModified, gridSize, tileSize>>
    /\ Rerender(FALSE)

selectElement(id) ==
    /\ selectedElementId' = id
    /\ UNCHANGED <<elements, elementsUndefined, elementsRef, history, historyIndex,
                   sceneName, sceneModified, gridSize, tileSize>>
    /\ Rerender(FALSE)

\* --------------------------------------------------------- grid operations
\* updateGridSize without its setSceneModified(true)
updateGridSizeUnflagged(newSize) ==
    /\ gridSize' = newSize
    /\ UNCHANGED <<elements, elementsUndefined, elementsRef, history, historyIndex,
                   selectedElementId, sceneName, sceneModified, tileSize>>
    /\ Rerender(FALSE)

updateGridSize(newSize) ==
    /\ gridSize' = newSize
    /\ sceneModified' = TRUE
    /\ UNCHANGED <<elements, elementsUndefined, elementsRef, history, historyIndex,
                   selectedElementId, sceneName, tileSize>>
    /\ Rerender(FALSE)

updateTileSize(newSize) ==
    /\ tileSize' = newSize
    /\ sceneModified' = TRUE
    /\ UNCHANGED <<elements, elementsUndefined, elementsRef, history, historyIndex,
                   selectedElementId, sceneName, gridSize>>
    /\ Rerender(FALSE)

\* ---------------------------------------------------- coordinate transform
\* Numbers that need not be whole are fractions n/d with d > 0.  A division
\* by zero gives d = 0: n/0 is Infinity for n > 0, -Infinity for n < 0 and
\* NaN for n = 0.
Frac(n, d) == [n |-> n, d |-> d]
FracOf(k) ==
    IF k = NaN THEN Frac(0, 0)
    ELSE IF k = Infinity THEN Frac(1, 0)
    ELSE IF k = -Infinity THEN Frac(-1, 0)
    ELSE Frac(k, 1)
FracAdd(a, b) ==
    IF a.d = 0 /\ b.d = 0
    THEN IF (a.n > 0 /\ b.n > 0) \/ (a.n < 0 /\ b.n < 0) THEN a ELSE Frac(0, 0)
    ELSE Frac(a.n * b.d + b.n * a.d, a.d * b.d)
FracSub(a, b) == FracAdd(a, Frac(-b.n, b.d))
FracMul(a, b) == Frac(a.n * b.n, a.d * b.d)
\* a / b for a finite b; the zero that divides is +0
FracDiv(a, b) ==
    IF b.n >= 0 THEN Frac(a.n * b.d, a.d * b.n)
    ELSE Frac(-(a.n * b.d), -(a.d * b.n))
NotFinite(a) == IF a.n = 0 THEN NaN ELSE IF a.n > 0 THEN Infinity ELSE -Infinity
MathFloor(a) == IF a.d = 0 THEN NotFinite(a) ELSE a.n \div a.d
\* Math.round: the nearest integer, halves rounded up
MathRound(a) == IF a.d = 0 THEN NotFinite(a) ELSE (2 * a.n + a.d) \div (2 * a.d)

screenToIsometric(screenX, screenY, tileWidth, tileHeight) ==
    LET halfW == FracDiv(FracOf(tileWidth), FracOf(2))
        halfH == FracDiv(FracOf(tileHeight), FracOf(2))
        isoX == MathFloor(FracDiv(FracAdd(FracDiv(screenX, halfW),
                                          FracDiv(screenY, halfH)), FracOf(2)))
        isoY == MathFloor(FracDiv(FracSub(FracDiv(screenY, halfH),
                                          FracDiv(screenX, halfW)), FracOf(2)))
    IN [x |-> isoX, y |-> isoY]

isometricToScreen(isoX, isoY, tileWidth, tileHeight) ==
    LET halfW == FracDiv(FracOf(tileWidth), FracOf(2))
        halfH == FracDiv(FracOf(tileHeight), FracOf(2))
    IN [x |-> FracMul(FracOf(isoX - isoY), halfW),
        y |-> FracMul(FracOf(isoX + isoY), halfH)]

\* ------------------------------------------------- numbers as doubles
\* The numbers of JavaScript are IEEE-754 doubles: a sign, a significand of
\* 53 bits and an exponent, every operation rounded to the nearest double,
\* ties to the even significand.  The significand is a natural number kept
\* as its digits in base LimbBase, least significant first, without leading
\* zeros; <<>> is zero.  Subnormals, overflow and the sign of zero are
\* not kept.
LimbBase == 16384
LimbBits == 14
MantissaBits == 53

Limb(a, i) == IF i <= Len(a) THEN a[i] ELSE 0

RECURSIVE BigNorm(_)
BigNorm(a) ==
    IF a = <<>> THEN <<>>
    ELSE IF a[Len(a)] = 0 THEN BigNorm(SubSeq(a, 1, Len(a) - 1)) ELSE a

RECURSIVE BigAddFrom(_, _, _, _)
BigAddFrom(a, b, i, carry) ==
    IF i > Len(a) /\ i > Len(b)
    THEN IF carry = 0 THEN <<>> ELSE <<carry>>
    ELSE LET t == Limb(a, i) + Limb(b, i) + carry
         IN <<t % LimbBase>> \o BigAddFrom(a, b, i + 1, t \div LimbBase)
BigAdd(a, b) == BigNorm(BigAddFrom(a, b, 1, 0))

\* a - b for a >= b
RECURSIVE BigSubFrom(_, _, _, _)
BigSubFrom(a, b, i, borrow) ==
    IF i > Len(a) THEN <<>>
    ELSE LET t == Limb(a, i) - Limb(b, i) - borrow
         IN IF t < 0 THEN <<t + LimbBase>> \o BigSubFrom(a, b, i + 1, 1)
            ELSE <<t>> \o BigSubFrom(a, b, i + 1, 0)
BigSub(a, b) == BigNorm(BigSubFrom(a, b, 1, 0))

\* -1, 0 or 1 as a < b, a = b or a > b
RECURSIVE BigCmpFrom(_, _, _)
BigCmpFrom(a, b, i) ==
    IF i = 0 THEN 0
    ELSE IF a[i] < b[i] THEN -1
    ELSE IF a[i] > b[i] THEN 1
    ELSE BigCmpFrom(a, b, i - 1)
BigCmp(a, b) ==
    IF Len(a) < Len(b) THEN -1
    ELSE IF Len(a) > Len(b) THEN 1
    ELSE BigCmpFrom(a, b, Len(a))

RECURSIVE BigMulSmallFrom(_, _, _, _)
BigMulSmallFrom(a, k, i, carry) ==
    IF i > Len(a)
    THEN IF carry = 0 THEN <<>> ELSE <<carry>>
    ELSE LET t == a[i] * k + carry
         IN <<t % LimbBase>> \o BigMulSmallFrom(a, k, i + 1, t \div LimbBase)

RECURSIVE BigMulFrom(_, _)
BigMulFrom(a, b) ==
    IF b = <<>> THEN <<>>
    ELSE BigAddFrom(BigMulSmallFrom(a, Head(b), 1, 0),
                    <<0>> \o BigMulFrom(a, Tail(b)), 1, 0)
BigMul(a, b) == BigNorm(BigMulFrom(a, b))

\* 2^k for k in 0..LimbBits
Pow2(k) == <<1, 2, 4, 8, 16, 32, 64, 128, 256, 512, 1024, 2048, 4096, 8192, 16384>>[k + 1]

\* a * 2^k and a \div 2^k
BigShl(a, k) ==
    IF a = <<>> THEN <<>>
    ELSE LET w == k \div LimbBits
             p == Pow2(k % LimbBits)
         IN BigNorm([i \in 1..(w + Len(a) + 1) |->
                       IF i <= w THEN 0
                       ELSE ((Limb(a, i - w) * p) % LimbBase)
                            + (IF i - w >= 2 THEN (a[i - w - 1] * p) \div LimbBase ELSE 0)])
BigShr(a, k) ==
    LET w == k \div LimbBits
        p == Pow2(k % LimbBits)
    IN IF Len(a) <= w THEN <<>>
       ELSE BigNorm([i \in 1..(Len(a) - w) |->
                       (a[i + w] \div p) + (Limb(a, i + w + 1) % p) * (LimbBase \div p)])
BigShl1(a) == BigShl(a, 1)
BigShr1(a) == BigShr(a, 1)

\* bit j of a, bit 0 being the least significant
BitAt(a, j) == (Limb(a, j \div LimbBits + 1) \div Pow2(j % LimbBits)) % 2
BigOdd(a) == BitAt(a, 0) = 1

RECURSIVE BitLen(_)
BitLen(n) == IF n = 0 THEN 0 ELSE 1 + BitLen(n \div 2)
BigBitLen(a) ==
    IF a = <<>> THEN 0 ELSE (Len(a) - 1) * LimbBits + BitLen(a[Len(a)])

RECURSIVE BigFromNat(_)
BigFromNat(n) ==
    IF n = 0 THEN <<>> ELSE <<n % LimbBase>> \o BigFromNat(n \div LimbBase)

\* for a number that fits an integer of the model
RECURSIVE BigToNat(_)
BigToNat(a) ==
    IF a = <<>> THEN 0 ELSE Head(a) + LimbBase * BigToNat(Tail(a))

\* a shifted right by k bits: the quotient, the bit shifted out last (guard)
\* and whether a 1 was shifted out before it (sticky)
BigShrSticky(a, k, sticky) ==
    [q |-> BigShr(a, k),
     guard |-> IF k >= 1 THEN BitAt(a, k - 1) ELSE 0,
     sticky |-> sticky \/ \E j \in 0..(k - 2) : BitAt(a, j) = 1]

DoubleZero == [s |-> 1, m |-> <<>>, e |-> 0]

\* the double nearest to s * (n + f) * 2^e, where 0 <= f < 1 and sticky says
\* that f > 0 (then n has more than MantissaBits + 1 bits)
RoundToDouble(s, n, e, sticky) ==
    IF n = <<>> THEN DoubleZero
    ELSE LET len == BigBitLen(n)
         IN IF len <= MantissaBits
            THEN [s |-> s, m |-> BigShl(n, MantissaBits - len),
                  e |-> e - (MantissaBits - len)]
            ELSE LET r == BigShrSticky(n, len - MantissaBits, sticky)
                     up == r.guard = 1 /\ (r.sticky \/ BigOdd(r.q))
                     q == IF up THEN BigAdd(r.q, <<1>>) ELSE r.q
                 IN IF BigBitLen(q) > MantissaBits
                    THEN [s |-> s, m |-> BigShr1(q), e |-> e + (len - MantissaBits) + 1]
                    ELSE [s |-> s, m |-> q, e |-> e + (len - MantissaBits)]

DoubleOfInt(k) ==
    RoundToDouble(IF k < 0 THEN -1 ELSE 1, BigFromNat(IF k < 0 THEN -k ELSE k), 0, FALSE)

DoubleNeg(a) == IF a.m = <<>> THEN a ELSE [a EXCEPT !.s = -a.s]

DoubleMul(a, b) ==
    IF a.m = <<>> \/ b.m = <<>> THEN DoubleZero
    ELSE RoundToDouble(a.s * b.s, BigMul(a.m, b.m), a.e + b.e, FALSE)

\* Long division, bit by bit: k more quotient bits of r / d for r < 2 * d
\* appended to q, and the remainder that is left, shifted like r
RECURSIVE DivBits(_, _, _, _)
DivBits(r, d, q, k) ==
    IF k = 0 THEN [q |-> q, r |-> r]
    ELSE IF BigCmp(r, d) >= 0
         THEN DivBits(BigShl1(BigSub(r, d)), d, BigAdd(BigShl1(q), <<1>>), k - 1)
         ELSE DivBits(BigShl1(r), d, BigShl1(q), k - 1)

\* the same, k times DivChunk bits
DivChunk == 7
RECURSIVE DivChunks(_, _, _, _)
DivChunks(r, d, q, k) ==
    IF k = 0 THEN [q |-> q, r |-> r]
    ELSE LET c == DivBits(r, d, q, DivChunk)
         IN DivChunks(c.r, d, c.q, k - 1)

\* a / b for b # 0
DoubleDiv(a, b) ==
    IF a.m = <<>> \/ b.m = <<>> THEN DoubleZero
    ELSE LET bits == MantissaBits + 3
             c == DivChunks(a.m, b.m, <<>>, bits \div DivChunk)
         IN RoundToDouble(a.s * b.s, c.q, a.e - b.e - (bits - 1), c.r # <<>>)

DoubleAdd(a, b) ==
    IF a.m = <<>> THEN b
    ELSE IF b.m = <<>> THEN a
    ELSE IF a.e - b.e > MantissaBits + 3 THEN a
    ELSE IF b.e - a.e > MantissaBits + 3 THEN b
    ELSE LET e == Min(a.e, b.e)
             x == BigShl(a.m, a.e - e)
             y == BigShl(b.m, b.e - e)
         IN IF a.s = b.s THEN RoundToDouble(a.s, BigAdd(x, y), e, FALSE)
            ELSE IF BigCmp(x, y) = 0 THEN DoubleZero
            ELSE IF BigCmp(x, y) > 0 THEN RoundToDouble(a.s, BigSub(x, y), e, FALSE)
            ELSE RoundToDouble(b.s, BigSub(y, x), e, FALSE)

DoubleSub(a, b) == DoubleAdd(a, DoubleNeg(b))

\* Math.floor of a double whose floor fits an integer of the model
DoubleFloor(a) ==
    IF a.m = <<>> THEN 0
    ELSE IF a.e >= 0 THEN a.s * BigToNat(BigShl(a.m, a.e))
    ELSE LET r == IF -a.e > MantissaBits
                  THEN [q |-> <<>>, guard |-> 1, sticky |-> TRUE]
                  ELSE BigShrSticky(a.m, -a.e, FALSE)
             whole == BigToNat(r.q)
             fraction == r.guard = 1 \/ r.sticky
         IN IF a.s = 1 THEN whole
            ELSE IF fraction THEN -(whole + 1) ELSE -whole

\* the double that a decimal literal n/d denotes
DoubleOfDecimal(n, d) == DoubleDiv(DoubleOfInt(n), DoubleOfInt(d))

\* screenToIsometric, isometricToScreen and snapToGrid on doubles; the grid
\* cell that screenToIsometric returns is whole
screenToIsometricDouble(screenX, screenY, tileWidth, tileHeight) ==
    LET two == DoubleOfInt(2)
        overW == DoubleDiv(screenX, DoubleDiv(tileWidth, two))
        overH == DoubleDiv(screenY, DoubleDiv(tileHeight, two))
    IN [x |-> DoubleFloor(DoubleDiv(DoubleAdd(overW, overH), two)),
        y |-> DoubleFloor(DoubleDiv(DoubleSub(overH, overW), two))]

isometricToScreenDouble(isoX, isoY, tileWidth, tileHeight) ==
    LET two == DoubleOfInt(2)
    IN [x |-> DoubleMul(DoubleOfInt(isoX - isoY), DoubleDiv(tileWidth, two)),
        y |-> DoubleMul(DoubleOfInt(isoX + isoY), DoubleDiv(tileHeight, two))]

snapToGrid(x, y, tileWidth, tileHeight) ==
    LET iso == screenToIsometricDouble(x, y, tileWidth, tileHeight)
    IN isometricToScreenDouble(iso.x, iso.y, tileWidth, tileHeight)

\* ------------------------------------------------------------------ layering
\* calculateZIndex as the comment above its return statement describes it:
\* higher x + y, lower z-index
calculateZIndexReversed(x, y) == 0 - (x + y)

\* calculateZIndex(x, y) for whole grid coordinates
calculateZIndex(x, y) == x + y

\* the zIndex style of an IsometricElement: 10 above the grid
ElementZIndex(element) ==
    calculateZIndex(element.position.x, element.position.y) + 10

\* the element is on a whole grid cell
OnCell(element) ==
    /\ element.position.x # JsonNull /\ IsFinite(element.position.x)
    /\ element.position.y # JsonNull /\ IsFinite(element.position.y)

\* The browser paints the elements, siblings in one stacking context, by
\* z-index and, among equal z-indices, in the order elements.map rendered
\* them: elements[i] is painted behind elements[j].
PaintedBehind(i, j) ==
    \/ ElementZIndex(elements[i]) < ElementZIndex(elements[j])
    \/ ElementZIndex(elements[i]) = ElementZIndex(elements[j]) /\ i < j

\* ------------------------------------------------------------ drag resolver
calculateGridPosition(x, y) ==
    LET adjustedX == FracDiv(FracOf(x - offset.x), Frac(zoom, ZoomDen))
        adjustedY == FracDiv(FracOf(y - offset.y), Frac(zoom, ZoomDen))
        grid == screenToIsometric(adjustedX, adjustedY, tileSize.width, tileSize.height)
        boundedX == MathMax(0, MathMin(gridSize.width - 1, MathRound(FracOf(grid.x))))
        boundedY == MathMax(0, MathMin(gridSize.height - 1, MathRound(FracOf(grid.y))))
    IN [x |-> boundedX, y |-> boundedY]

\* handleDragEnd without its look at the drop target
handleDragEndAnywhere(event) ==
    IF event.isNew
    THEN IF event.type = "" THEN UNCHANGED sceneVars
         ELSE addElement([type |-> event.type,
                          position |-> calculateGridPosition(event.activatorEvent.clientX,
                                                             event.activatorEvent.clientY),
                          rotation |-> 0,
                          scale |-> 1])
    ELSE IF event.id = NULL THEN UNCHANGED sceneVars
         ELSE updateElement(event.id,
                  [position |-> calculateGridPosition(event.activatorEvent.clientX,
                                                      event.activatorEvent.clientY)])

\* A drag-end event of the drag library: over is the drop target (FALSE when
\* there is none), isNew says that active.id starts with 'palette-', type and
\* id are active.data.current.type / .id ("" and NULL when absent), activatorEvent is
\* the pointer event that started the drag and delta the movement since then.
handleDragEnd(event) ==
    IF ~event.over THEN UNCHANGED sceneVars
    ELSE IF event.isNew
    THEN IF event.type = "" THEN UNCHANGED sceneVars
         ELSE addElement([type |-> event.type,
                          position |-> calculateGridPosition(event.activatorEvent.clientX,
                                                             event.activatorEvent.clientY),
                          rotation |-> 0,
                          scale |-> 1])
    ELSE IF event.id = NULL THEN UNCHANGED sceneVars
         ELSE updateElement(event.id,
                  [position |-> calculateGridPosition(event.activatorEvent.clientX,
                                                      event.activatorEvent.clientY)])

\* ----------------------------------------------------------- view operations
updateZoom(newZoom) == zoom' = newZoom
updateOffset(newOffset) == offset' = newOffset
toggleGridVisibility == showGrid' = ~showGrid

\* ------------------------------------------------------ canvas pan handlers
\* A mouse event: button, modifier (ctrlKey || altKey || shiftKey), the
\* pointer position, and onBackground (the target is the canvas itself).
\* The cursor read-out that handleMouseMove also updates is not kept.
handleMouseDown(e) ==
    IF e.button = 1 \/ e.modifier
    THEN /\ isDragging' = TRUE
         /\ dragStart' = [x |-> e.clientX, y |-> e.clientY]
         /\ startOffset' = offset
         /\ UNCHANGED <<sceneVars, offset>>
    ELSE IF e.onBackground
    THEN /\ selectElement(NULL)
         /\ UNCHANGED <<isDragging, dragStart, startOffset, offset>>
    ELSE UNCHANGED <<sceneVars, isDragging, dragStart, startOffset, offset>>

\* handleMouseMove that pans from the current offset instead of startOffset
handleMouseMoveFromCurrent(e) ==
    IF ~isDragging
    THEN UNCHANGED <<sceneVars, isDragging, dragStart, startOffset, offset>>
    ELSE /\ updateOffset([x |-> offset.x + (e.clientX - dragStart.x),
                          y |-> offset.y + (e.clientY - dragStart.y)])
         /\ UNCHANGED <<sceneVars, isDragging, dragStart, startOffset>>

handleMouseMove(e) ==
    IF ~isDragging
    THEN UNCHANGED <<sceneVars, isDragging, dragStart, startOffset, offset>>
    ELSE /\ updateOffset([x |-> startOffset.x + (e.clientX - dragStart.x),
                          y |-> startOffset.y + (e.clientY - dragStart.y)])
         /\ UNCHANGED <<sceneVars, isDragging, dragStart, startOffset>>

\* A wheel event: ctrl (ctrlKey || metaKey), deltaY, and the pointer position
\* relative to the canvas.  The new offset is
\* offset - (mouse / zoom) * (newZoom - zoom).
WheelOffset(e, newZoom) ==
    [x |-> FracSub(FracOf(offset.x),
                   FracMul(FracDiv(FracOf(e.mouseX), Frac(zoom, ZoomDen)),
                           Frac(newZoom - zoom, ZoomDen))),
     y |-> FracSub(FracOf(offset.y),
                   FracMul(FracDiv(FracOf(e.mouseY), Frac(zoom, ZoomDen)),
                           Frac(newZoom - zoom, ZoomDen)))]

\* handleWheel without Math.max / Math.min around the new zoom
handleWheelUnclamped(e) ==
    IF ~e.ctrl THEN UNCHANGED <<zoom, offset>>
    ELSE LET delta == IF e.deltaY > 0 THEN -WheelStep ELSE WheelStep
             newZoom == zoom + delta
             newOffset == WheelOffset(e, newZoom)
         IN /\ updateZoom(newZoom)
            /\ updateOffset([x |-> MathFloor(newOffset.x), y |-> MathFloor(newOffset.y)])

\* the offsets are kept as whole pixels: the wheel events offered are those
\* whose new offset is whole (WheelIsWhole), so that MathFloor changes nothing
handleWheel(e) ==
    IF ~e.ctrl THEN UNCHANGED <<zoom, offset>>
    ELSE LET delta == IF e.deltaY > 0 THEN -WheelStep ELSE WheelStep
             newZoom == Max(MinZoom, Min(MaxZoom, zoom + delta))
             newOffset == WheelOffset(e, newZoom)
         IN /\ updateZoom(newZoom)
            /\ updateOffset([x |-> MathFloor(newOffset.x), y |-> MathFloor(newOffset.y)])

handleMouseUp ==
    /\ isDragging' = FALSE
    /\ UNCHANGED <<sceneVars, dragStart, startOffset, offset>>

\* The point between the first two touches; the touches offered have even sums
TouchCentre(touches) ==
    [x |-> (touches[1].clientX + touches[2].clientX) \div 2,
     y |-> (touches[1].clientY + touches[2].clientY) \div 2]

handleTouchStart(e) ==
    IF Len(e.touches) = 2
    THEN /\ isDragging' = TRUE
         /\ dragStart' = TouchCentre(e.touches)
         /\ startOffset' = offset
         /\ UNCHANGED <<sceneVars, offset>>
    ELSE UNCHANGED <<sceneVars, isDragging, dragStart, startOffset, offset>>

handleTouchMove(e) ==
    IF ~isDragging \/ Len(e.touches) # 2
    THEN UNCHANGED <<sceneVars, isDragging, dragStart, startOffset, offset>>
    ELSE /\ updateOffset([x |-> startOffset.x + (TouchCentre(e.touches).x - dragStart.x),
                          y |-> startOffset.y + (TouchCentre(e.touches).y - dragStart.y)])
         /\ UNCHANGED <<sceneVars, isDragging, dragStart, startOffset>>

handleTouchEnd ==
    /\ isDragging' = FALSE
    /\ UNCHANGED <<sceneVars, dragStart, startOffset, offset>>

\* ------------------------------------------------------------- persistence
\* A scene blob as JSON.parse returns it: isArray is Array.isArray(elements),
\* gridSize and tileSize are metadata?.gridSize / .tileSize, <<>> when absent.
\* The timestamp fields are written and never read back; they are left out.
serializeScene(sceneState) ==
    [version |-> "1.0.0",
     isArray |-> TRUE,
     elements |-> sceneState.elements,
     gridSize |-> <<sceneState.gridSize>>,
     tileSize |-> <<sceneState.tileSize>>]

\* validateSceneData that lets every blob pass
validateSceneDataLax(sceneData) == TRUE

validateSceneData(sceneData) == sceneData.isArray

\* <<state>>, or <<>> where the code throws 'Invalid scene data format'
deserializeScene(sceneData) ==
    IF ~validateSceneData(sceneData) THEN <<>>
    ELSE <<[elements |-> sceneData.elements,
            gridSize |-> sceneData.gridSize,
            tileSize |-> sceneData.tileSize]>>

IndexNames == {scenesIndex[i].name : i \in 1..Len(scenesIndex)}

\* failure: "none", or the localStorage.setItem call that throws
saveSceneToLocalStorage(name, sceneState, failure) ==
    LET sceneInfo == [name |-> name, preview |-> NULL]
        existingIndex == IF name \in IndexNames
                         THEN CHOOSE i \in 1..Len(scenesIndex) : scenesIndex[i].name = name
                         ELSE 0
        newIndex == IF existingIndex >= 1
                    THEN [scenesIndex EXCEPT ![existingIndex] = sceneInfo]
                    ELSE Append(scenesIndex, sceneInfo)
    IN /\ scenesIndex' = IF failure = "index" THEN scenesIndex ELSE newIndex
       /\ sceneSlots' = IF failure = "none"
                        THEN [sceneSlots EXCEPT
                                ![name] = <<JSONstringify(serializeScene(sceneState))>>]
                        ELSE sceneSlots

\* failure: "none", or "index" when the setItem of the index throws
deleteScene(name, failure) ==
    IF failure = "none"
    THEN /\ scenesIndex' = SelectSeq(scenesIndex, LAMBDA item : item.name # name)
         /\ sceneSlots' = [sceneSlots EXCEPT ![name] = <<>>]
    ELSE UNCHANGED <<scenesIndex, sceneSlots>>

\* <<state>>, or <<>> for null
loadSceneFromLocalStorage(name) ==
    IF sceneSlots[name] = <<>> THEN <<>>
    ELSE IF JSONparse(sceneSlots[name][1]) = <<>> THEN <<>>
    ELSE deserializeScene(JSONparse(sceneSlots[name][1])[1])

saveScene(name, failure) ==
    /\ saveSceneToLocalStorage(name,
           [elements |-> elements, gridSize |-> gridSize, tileSize |-> tileSize], failure)
    /\ IF failure = "none"
       THEN sceneName' = name /\ sceneModified' = FALSE
       ELSE UNCHANGED <<sceneName, sceneModified>>
    /\ UNCHANGED <<elements, elementsUndefined, elementsRef, history, historyIndex,
                   selectedElementId, gridSize, tileSize>>
    /\ Rerender(FALSE)

\* applySceneState that records the loaded collection as one more history
\* entry instead of resetting the history
applySceneStateKeepingHistory(sceneState) ==
    /\ elements' = sceneState.elements
    /\ elementsUndefined' = FALSE
    /\ gridSize' = IF sceneState.gridSize # <<>> THEN sceneState.gridSize[1] ELSE gridSize
    /\ tileSize' = IF sceneState.tileSize # <<>> THEN sceneState.tileSize[1] ELSE tileSize
    /\ history' = Append(history, sceneState.elements)
    /\ historyIndex' = Len(history)
    /\ elementsRef' = Len(history)
    /\ UNCHANGED selectedElementId
    /\ Rerender(TRUE)

\* The updates that loadScene and importScene share
applySceneState(sceneState) ==
    /\ elements' = sceneState.elements
    /\ elementsUndefined' = FALSE
    /\ gridSize' = IF sceneState.gridSize # <<>> THEN sceneState.gridSize[1] ELSE gridSize
    /\ tileSize' = IF sceneState.tileSize # <<>> THEN sceneState.tileSize[1] ELSE tileSize
    /\ history' = <<sceneState.elements>>
    /\ historyIndex' = 0
    /\ elementsRef' = 0
    /\ UNCHANGED selectedElementId
    /\ Rerender(TRUE)

loadScene(name) ==
    LET sceneState == loadSceneFromLocalStorage(name)
    IN IF sceneState # <<>>
       THEN /\ applySceneState(sceneState[1])
            /\ sceneName' = name
            /\ sceneModified' = FALSE
       ELSE UNCHANGED sceneVars

\* file.name.replace(/\.[^/.]+$/, ''): a name is a stem and an extension
StripExtension(name) == name.stem

\* <<state>>, or <<>> where the promise rejects
importSceneFromJSON(file) ==
    IF JSONparse([parses |-> file.parses, data |-> file.data]) = <<>> THEN <<>>
    ELSE deserializeScene(JSONparse([parses |-> file.parses, data |-> file.data])[1])

importScene(file) ==
    LET sceneState == importSceneFromJSON(file)
    IN IF sceneState # <<>>
       THEN /\ applySceneState(sceneState[1])
            /\ sceneName' = IF StripExtension(file.name) # ""
                            THEN StripExtension(file.name) ELSE "Imported Scene"
            /\ sceneModified' = TRUE
       ELSE UNCHANGED sceneVars

\* ------------------------------------------------------------- ElementControls
\* a % b of JavaScript: the remainder has the sign of the dividend
JsRem(a, b) == IF a >= 0 THEN a % b ELSE -((-a) % b)

\* ElementControls is rendered for a selected element that is live
handleRotate(degrees) ==
    /\ FindIndex(elements, selectedElementId) # 0
    /\ LET selectedElement == elements[FindIndex(elements, selectedElementId)]
           newRotation == JsRem(selectedElement.rotation + degrees, 360)
       IN updateElement(selectedElementId, [rotation |-> newRotation])

\* ------------------------------------------------------------ input domains
ElementTypes == {"tree"}
KnownIds == {NumberToString(t) : t \in 1..MaxClock} \cup {StoredElement.id}
FileElement == StoredElement
\* files offered to the import dialog
FileOf(stem, parses, isArray, els, grid, tile) ==
    [name |-> [stem |-> stem, ext |-> "json"], parses |-> parses,
     data |-> [version |-> "1.0.0", isArray |-> isArray, elements |-> els,
               gridSize |-> grid, tileSize |-> tile]]
ImportFiles ==
    { FileOf("A", TRUE, TRUE, <<FileElement>>, <<>>, <<>>),
      FileOf("A", TRUE, FALSE, <<>>, <<>>, <<>>),
      FileOf("A", FALSE, FALSE, <<>>, <<>>, <<>>) }
DragEventsAt(pointers) ==
    [over : BOOLEAN, isNew : BOOLEAN, type : ElementTypes \cup {""},
     id : KnownIds \cup {NULL}, activatorEvent : pointers,
     delta : {[x |-> 0, y |-> 0], [x |-> 32, y |-> 16]}]
\* pointer positions of the drags of Spec, and of SpecDrag
Pointers == { [clientX |-> 0, clientY |-> 0] }

\* ------------------------------------------------------------------ events
Tick ==
    /\ Mounted
    /\ now < MaxClock
    /\ now' = now + 1
    /\ UNCHANGED <<sceneVars, viewVars, storageVars>>

CanRecord ==
    Mounted /\ historyIndex < MaxHistoryIndex /\ Len(history) <= MaxHistoryIndex

DragEnd ==
    /\ CanRecord
    /\ \E event \in DragEventsAt(Pointers) :
          /\ (event.over /\ event.isNew /\ event.type # "") => Len(elements) < MaxElements
          /\ handleDragEnd(event)
    /\ UNCHANGED <<viewVars, storageVars, now>>

Rotate ==
    /\ CanRecord
    /\ \E degrees \in {-90, 90} : handleRotate(degrees)
    /\ UNCHANGED <<viewVars, storageVars, now>>

KeyDelete ==
    /\ CanRecord
    /\ selectedElementId # NULL
    /\ removeElement(selectedElementId)
    /\ UNCHANGED <<viewVars, storageVars, now>>

KeyDuplicate ==
    /\ CanRecord
    /\ selectedElementId # NULL
    /\ Len(elements) < MaxElements
    /\ \A i \in 1..Len(elements) :
          elements[i].position.x < MaxCoord /\ elements[i].position.y < MaxCoord
    /\ duplicateElement(selectedElementId)
    /\ UNCHANGED <<viewVars, storageVars, now>>

ClickElement ==
    /\ Mounted
    /\ \E id \in Ids(elements) : selectElement(id)
    /\ UNCHANGED <<viewVars, storageVars, now>>

ClickCanvas ==
    /\ Mounted
    /\ selectElement(NULL)
    /\ UNCHANGED <<viewVars, storageVars, now>>

ConfirmClearScene ==
    /\ CanRecord
    /\ clearScene
    /\ UNCHANGED <<viewVars, storageVars, now>>

NewScene ==
    /\ CanRecord
    /\ createNewScene
    /\ UNCHANGED <<storageVars, now>>

SaveSceneUnder(names) ==
    /\ Mounted
    /\ \E name \in names, failure \in {"none", "index", "scene"} :
          saveScene(name, failure)
    /\ UNCHANGED <<viewVars, now>>

SaveScene == SaveSceneUnder(SlotNames)

LoadScene ==
    /\ Mounted
    /\ \E name \in SlotNames : loadScene(name)
    /\ UNCHANGED <<viewVars, storageVars, now>>

ImportScene ==
    /\ Mounted
    /\ \E file \in ImportFiles : importScene(file)
    /\ UNCHANGED <<viewVars, storageVars, now>>

KeyUndo ==
    /\ Mounted
    /\ undo
    /\ UNCHANGED <<viewVars, storageVars, now>>

KeyRedo ==
    /\ Mounted
    /\ redo
    /\ UNCHANGED <<viewVars, storageVars, now>>

Next ==
    \/ Tick /\ UNCHANGED idle
    \/ DragEnd /\ UNCHANGED idle
    \/ KeyDelete /\ UNCHANGED idle
    \/ KeyDuplicate /\ UNCHANGED idle
    \/ ClickElement /\ UNCHANGED idle
    \/ ClickCanvas /\ UNCHANGED idle
    \/ ConfirmClearScene /\ UNCHANGED idle
    \/ NewScene /\ UNCHANGED idle
    \/ LoadScene /\ UNCHANGED idle
    \/ ImportScene /\ UNCHANGED idle
    \/ KeyUndo /\ UNCHANGED idle
    \/ KeyRedo /\ UNCHANGED idle

Spec == Init /\ [][Next]_vars

\* ------------------------------------------------- the drag resolver at work
\* Keyboard shortcuts of the view: Ctrl +/-, Ctrl 0, the arrow keys
KeyZoomIn ==
    /\ Mounted
    /\ updateZoom(Min(MaxZoom, zoom + ZoomKeyStep))
    /\ UNCHANGED <<offset, sceneVars, storageVars, now>>

KeyZoomOut ==
    /\ Mounted
    /\ updateZoom(Max(MinZoom, zoom - ZoomKeyStep))
    /\ UNCHANGED <<offset, sceneVars, storageVars, now>>

KeyResetView ==
    /\ Mounted
    /\ updateZoom(InitZoom)
    /\ updateOffset([x |-> 0, y |-> 0])
    /\ UNCHANGED <<sceneVars, storageVars, now>>

KeyPan ==
    /\ Mounted
    /\ \E d \in {[x |-> 0, y |-> PanAmount], [x |-> 0, y |-> -PanAmount],
                 [x |-> PanAmount, y |-> 0], [x |-> -PanAmount, y |-> 0]} :
          /\ offset.x + d.x \in (-MaxPan)..MaxPan
          /\ offset.y + d.y \in (-MaxPan)..MaxPan
          /\ updateOffset([x |-> offset.x + d.x, y |-> offset.y + d.y])
    /\ UNCHANGED <<zoom, sceneVars, storageVars, now>>

\* pointer positions over and around the grid
WidePointers ==
    { [clientX |-> 0, clientY |-> 0], [clientX |-> 100, clientY |-> 70],
      [clientX |-> -500, clientY |-> 10], [clientX |-> 900, clientY |-> 900],
      [clientX |-> 10, clientY |-> -300] }

\* files that carry a grid configuration
GridFiles ==
    { FileOf("A", TRUE, TRUE, <<>>, <<[width |-> 2, height |-> 3]>>, <<>>),
      FileOf("A", TRUE, TRUE, <<>>, <<[width |-> 0, height |-> 0]>>, <<>>),
      FileOf("A", TRUE, TRUE, <<>>, <<>>, <<[width |-> 32, height |-> 16]>>) }

DragEndWide ==
    /\ CanRecord
    /\ \E event \in DragEventsAt(WidePointers) :
          /\ (event.over /\ event.isNew /\ event.type # "") => Len(elements) < MaxDragElements
          /\ handleDragEnd(event)
    /\ UNCHANGED <<viewVars, storageVars, now>>

ImportGridFile ==
    /\ Mounted
    /\ \E file \in GridFiles : importScene(file)
    /\ UNCHANGED <<viewVars, storageVars, now>>

NextDrag ==
    \/ DragEndWide /\ UNCHANGED idle
    \/ ImportGridFile /\ UNCHANGED idle
    \/ KeyZoomIn /\ UNCHANGED idle
    \/ KeyZoomOut /\ UNCHANGED idle
    \/ KeyResetView /\ UNCHANGED idle
    \/ KeyPan /\ UNCHANGED idle

SpecDrag == Init /\ [][NextDrag]_vars

\* ------------------------------------------- runs of mutations, undos, redos
\* A run is N history-recording mutations, then up to N + 1 undos, then up to
\* N redos; clicks that select and the passing of time may come in between
\* the mutations.  script holds one entry per call of the run.
Count(op) == Cardinality({i \in 1..Len(script) : script[i].op = op})
Logged(op) ==
    script' = Append(script, [op |-> op, after |-> elements',
                              undefined |-> elementsUndefined'])

RunMutation ==
    /\ Count("undo") = 0
    /\ Len(script) < MaxRun
    /\ DragEnd \/ KeyDelete \/ KeyDuplicate \/ ConfirmClearScene
    /\ historyIndex' = historyIndex + 1
    /\ Logged("record")
    /\ UNCHANGED <<canvasVars, exportVars>>

RunSelect ==
    /\ Count("undo") = 0
    /\ ClickElement \/ ClickCanvas
    /\ UNCHANGED idle

RunTick ==
    /\ Count("undo") = 0
    /\ Tick
    /\ UNCHANGED idle

RunUndo ==
    /\ Count("record") >= 1
    /\ Count("redo") = 0
    /\ Count("undo") <= Count("record")
    /\ KeyUndo
    /\ Logged("undo")
    /\ UNCHANGED <<canvasVars, exportVars>>

RunRedo ==
    /\ Count("undo") = Count("record") + 1
    /\ Count("redo") < Count("record")
    /\ KeyRedo
    /\ Logged("redo")
    /\ UNCHANGED <<canvasVars, exportVars>>

NextRun ==
    \/ RunMutation
    \/ RunSelect
    \/ RunTick
    \/ RunUndo
    \/ RunRedo

SpecUndoRedo == Init /\ [][NextRun]_vars

\* ------------------------------------------------ drags, one call at a time
\* script holds the call made last and the collection it left
Noted(op) ==
    script' = <<[op |-> op, after |-> elements', undefined |-> elementsUndefined']>>

\* the drag-end events that handleDragEnd is to ignore
AbortedDrags ==
    {event \in DragEventsAt(Pointers) :
        \/ ~event.over
        \/ event.isNew /\ event.type = ""
        \/ ~event.isNew /\ event.id = NULL}

DropOnSurface ==
    /\ CanRecord
    /\ \E event \in DragEventsAt(Pointers) \ AbortedDrags :
          /\ event.isNew => Len(elements) < MaxElements
          /\ handleDragEnd(event)
    /\ Noted("drop")
    /\ UNCHANGED <<viewVars, storageVars, now, canvasVars, exportVars>>

DropAborted ==
    /\ Mounted
    /\ \E event \in AbortedDrags : handleDragEnd(event)
    /\ Noted("abort")
    /\ UNCHANGED <<viewVars, storageVars, now, canvasVars, exportVars>>

NextGesture ==
    \/ DropOnSurface
    \/ DropAborted
    \/ Tick /\ Noted("tick") /\ UNCHANGED <<canvasVars, exportVars>>
    \/ ClickElement /\ Noted("select") /\ UNCHANGED <<canvasVars, exportVars>>
    \/ ClickCanvas /\ Noted("select") /\ UNCHANGED <<canvasVars, exportVars>>
    \/ KeyDelete /\ Noted("delete") /\ UNCHANGED <<canvasVars, exportVars>>
    \/ KeyUndo /\ Noted("undo") /\ UNCHANGED <<canvasVars, exportVars>>
    \/ KeyRedo /\ Noted("redo") /\ UNCHANGED <<canvasVars, exportVars>>

SpecGesture == Init /\ [][NextGesture]_vars

\* ------------------------------------------------------- the pan gesture
PanPointers == {[x |-> 0, y |-> 0], [x |-> 20, y |-> 0], [x |-> 0, y |-> 20]}
MouseEvents ==
    {[button |-> b, modifier |-> m, onBackground |-> g, clientX |-> p.x, clientY |-> p.y] :
        b \in {0, 1}, m \in BOOLEAN, g \in BOOLEAN, p \in PanPointers}
TouchPoints == {[clientX |-> 0, clientY |-> 0], [clientX |-> 40, clientY |-> 0]}
TouchEvents ==
    {[touches |-> t] : t \in UNION {[1..n -> TouchPoints] : n \in 1..3}}

\* the offset stays within reach of the arrow keys' bound
OffsetInReach == offset'.x \in (-MaxPan)..MaxPan /\ offset'.y \in (-MaxPan)..MaxPan

MouseDown ==
    /\ Mounted
    /\ \E e \in MouseEvents : handleMouseDown(e)
    /\ Noted("mouseDown")
    /\ UNCHANGED <<zoom, showGrid, storageVars, now, exportVars>>

MouseMove ==
    /\ Mounted
    /\ \E e \in MouseEvents : handleMouseMove(e)
    /\ OffsetInReach
    /\ Noted("mouseMove")
    /\ UNCHANGED <<zoom, showGrid, storageVars, now, exportVars>>

MouseUp ==
    /\ Mounted
    /\ handleMouseUp
    /\ Noted("mouseUp")
    /\ UNCHANGED <<zoom, showGrid, storageVars, now, exportVars>>

TouchStart ==
    /\ Mounted
    /\ \E e \in TouchEvents : handleTouchStart(e)
    /\ Noted("touchStart")
    /\ UNCHANGED <<zoom, showGrid, storageVars, now, exportVars>>

TouchMove ==
    /\ Mounted
    /\ \E e \in TouchEvents : handleTouchMove(e)
    /\ OffsetInReach
    /\ Noted("touchMove")
    /\ UNCHANGED <<zoom, showGrid, storageVars, now, exportVars>>

TouchEnd ==
    /\ Mounted
    /\ handleTouchEnd
    /\ Noted("touchEnd")
    /\ UNCHANGED <<zoom, showGrid, storageVars, now, exportVars>>

\* a palette item is dropped on the canvas, also while a pan is active
PlaceOnCanvas ==
    /\ CanRecord
    /\ Len(elements) < MaxDragElements
    /\ \E event \in DragEventsAt(Pointers) \ AbortedDrags :
          event.isNew /\ handleDragEnd(event)
    /\ UNCHANGED <<viewVars, storageVars, now, canvasVars, exportVars>>

NextPan ==
    \/ MouseDown
    \/ MouseMove
    \/ MouseUp
    \/ TouchStart
    \/ TouchMove
    \/ TouchEnd
    \/ KeyPan /\ Noted("key") /\ UNCHANGED <<canvasVars, exportVars>>
    \/ PlaceOnCanvas /\ Noted("drop")

SpecPan == Init /\ [][NextPan]_vars

\* The browser cancels the touches (an incoming call, a system gesture): the
\* canvas registers listeners for touchstart, touchmove and touchend only, so
\* no handler runs.  It happens while fingers are down, after a touchstart or
\* a touchmove.
TouchCancel ==
    /\ Mounted
    /\ script # <<>> /\ script[1].op \in {"touchStart", "touchMove"}
    /\ UNCHANGED <<sceneVars, viewVars, storageVars, now, canvasVars, exportVars>>
    /\ Noted("touchCancel")

NextRelease ==
    \/ MouseDown
    \/ MouseMove
    \/ MouseUp
    \/ TouchStart
    \/ TouchMove
    \/ TouchEnd
    \/ TouchCancel

SpecRelease == Init /\ [][NextRelease]_vars

\* ------------------------------------------- the view next to the history
KeyToggleGrid ==
    /\ Mounted
    /\ toggleGridVisibility
    /\ UNCHANGED <<sceneVars, viewVars, storageVars, now,
                   isDragging, dragStart, startOffset, exportVars>>

NextView ==
    \/ KeyZoomIn /\ UNCHANGED idle
    \/ KeyZoomOut /\ UNCHANGED idle
    \/ KeyResetView /\ UNCHANGED idle
    \/ KeyPan /\ UNCHANGED idle
    \/ KeyToggleGrid /\ UNCHANGED script
    \/ ClickElement /\ UNCHANGED idle
    \/ ClickCanvas /\ UNCHANGED idle
    \/ LoadScene /\ UNCHANGED idle
    \/ KeyDelete /\ UNCHANGED idle
    \/ KeyUndo /\ UNCHANGED idle
    \/ KeyRedo /\ UNCHANGED idle

SpecView == Init /\ [][NextView]_vars

\* ------------------------------------------------------ the zoom controls
\* wheel events with the pointer at the canvas corner or 20 * zoom pixels to
\* its right (one pixel of offset for one step of the wheel)
WheelEvents ==
    {[ctrl |-> c, deltaY |-> d, mouseX |-> x, mouseY |-> 0] :
        c \in BOOLEAN, d \in {-100, 100}, x \in {0, zoom}}
WheelIsWhole(e) ==
    LET delta == IF e.deltaY > 0 THEN -WheelStep ELSE WheelStep
        newOffset == WheelOffset(e, Max(MinZoom, Min(MaxZoom, zoom + delta)))
    IN newOffset.x.n % newOffset.x.d = 0 /\ newOffset.y.n % newOffset.y.d = 0

Wheel ==
    /\ Mounted
    /\ \E e \in WheelEvents : WheelIsWhole(e) /\ handleWheel(e)
    /\ OffsetInReach
    /\ UNCHANGED <<sceneVars, storageVars, now>>

\* the zoom buttons of the toolbar and of the sidebar
ClickZoomIn ==
    /\ Mounted
    /\ updateZoom(Min(MaxZoom, zoom + ZoomKeyStep))
    /\ UNCHANGED <<offset, sceneVars, storageVars, now>>

ClickZoomOut ==
    /\ Mounted
    /\ updateZoom(Max(MinZoom, zoom - ZoomKeyStep))
    /\ UNCHANGED <<offset, sceneVars, storageVars, now>>

\* the sidebar's reset sets the zoom only; the toolbar's is KeyResetView
ClickZoomReset ==
    /\ Mounted
    /\ updateZoom(InitZoom)
    /\ UNCHANGED <<offset, sceneVars, storageVars, now>>

NextZoom ==
    \/ Wheel /\ UNCHANGED idle
    \/ KeyZoomIn /\ UNCHANGED idle
    \/ KeyZoomOut /\ UNCHANGED idle
    \/ KeyResetView /\ UNCHANGED idle
    \/ ClickZoomIn /\ UNCHANGED idle
    \/ ClickZoomOut /\ UNCHANGED idle
    \/ ClickZoomReset /\ UNCHANGED idle
    \/ NewScene /\ UNCHANGED idle

SpecZoom == Init /\ [][NextZoom]_vars

\* ------------------------------------------------- saving, loading, deleting
\* What localStorage may hold when the page opens: scene "A" as saved by an
\* earlier session and, under "B", nothing, a text that is not JSON, or a
\* JSON text whose elements are not an array.
StoredContents ==
    {StoredAtStart} \cup
    {[index |-> <<[name |-> "A", preview |-> NULL], [name |-> "B", preview |-> NULL]>>,
      slots |-> [n \in SlotNames |->
                   IF n = "A" THEN <<JSONstringify(StoredBlob)>> ELSE <<text>>]] :
        text \in {[parses |-> FALSE, data |-> StoredBlob],
                  JSONstringify([StoredBlob EXCEPT !.isArray = FALSE, !.elements = <<>>])}}

InitStore ==
    /\ InitScene
    /\ \E stored \in StoredContents :
          scenesIndex = stored.index /\ sceneSlots = stored.slots

\* the sizes that the size controls are set to
GridSizes == {[width |-> 2, height |-> 3], [width |-> InitGridWidth, height |-> InitGridHeight]}
TileSizes == {[width |-> 32, height |-> 16], [width |-> InitTileWidth, height |-> InitTileHeight]}

ChangeGridSize ==
    /\ Mounted
    /\ \E newSize \in GridSizes : updateGridSize(newSize)
    /\ UNCHANGED <<viewVars, storageVars, now>>

ChangeTileSize ==
    /\ Mounted
    /\ \E newSize \in TileSizes : updateTileSize(newSize)
    /\ UNCHANGED <<viewVars, storageVars, now>>

DeleteScene ==
    /\ Mounted
    /\ \E name \in SlotNames, failure \in {"none", "index"} : deleteScene(name, failure)
    /\ UNCHANGED <<sceneVars, viewVars, now>>

\* script remembers the scene of the last saveScene that reported success and
\* the name it was saved under, until something else is written to the store
Remembered(name) ==
    <<[op |-> name, after |-> elements, grid |-> gridSize, tile |-> tileSize]>>

SaveAndRemember ==
    /\ Mounted
    /\ \E name \in SlotNames, failure \in {"none", "index", "scene"} :
          /\ saveScene(name, failure)
          /\ script' = IF failure = "none" THEN Remembered(name) ELSE <<>>
    /\ UNCHANGED <<viewVars, now, canvasVars, exportVars>>

DeleteAndForget ==
    /\ DeleteScene
    /\ script' = <<>>
    /\ UNCHANGED <<canvasVars, exportVars>>

\* a file whose metadata give tiles of 0 x 0 is imported
TileFiles == { FileOf("A", TRUE, TRUE, <<>>, <<>>, <<[width |-> 0, height |-> 0]>>) }

ImportTileFile ==
    /\ Mounted
    /\ \E file \in TileFiles : importScene(file)
    /\ UNCHANGED <<viewVars, storageVars, now>>

NextStore ==
    \/ SaveAndRemember
    \/ DeleteAndForget
    \/ LoadScene /\ UNCHANGED idle
    \/ PlaceOnCanvas /\ UNCHANGED script
    \/ ConfirmClearScene /\ UNCHANGED idle
    \/ ChangeGridSize /\ UNCHANGED idle
    \/ ImportTileFile /\ UNCHANGED idle

SpecStore == InitStore /\ [][NextStore]_vars

\* ------------------------------------------------------ the modified flag
\* an element of the canvas is dragged and dropped on the canvas
MoveOnCanvas ==
    /\ CanRecord
    /\ \E event \in DragEventsAt(Pointers) \ AbortedDrags :
          ~event.isNew /\ event.id \in Ids(elements) /\ handleDragEnd(event)
    /\ UNCHANGED <<viewVars, storageVars, now>>

NextModified ==
    \/ PlaceOnCanvas /\ UNCHANGED script
    \/ ClickElement /\ UNCHANGED idle
    \/ KeyDelete /\ UNCHANGED idle
    \/ KeyDuplicate /\ UNCHANGED idle
    \/ MoveOnCanvas /\ UNCHANGED idle
    \/ ConfirmClearScene /\ UNCHANGED idle
    \/ ChangeGridSize /\ UNCHANGED idle
    \/ ChangeTileSize /\ UNCHANGED idle
    \/ SaveSceneUnder({"B"}) /\ UNCHANGED idle
    \/ LoadScene /\ UNCHANGED idle

SpecModified == Init /\ [][NextModified]_vars

\* ------------------------------------------- loads and imports that fail
\* script holds the call made last, with what loadScene or importScene
\* returned to its caller
LoadAndNote ==
    /\ Mounted
    /\ \E name \in SlotNames :
          /\ loadScene(name)
          /\ Noted(IF loadSceneFromLocalStorage(name) # <<>>
                   THEN "loadScene: true" ELSE "loadScene: false")
    /\ UNCHANGED <<viewVars, storageVars, now, canvasVars, exportVars>>

ImportAndNote ==
    /\ Mounted
    /\ \E file \in ImportFiles :
          /\ importScene(file)
          /\ Noted(IF importSceneFromJSON(file) # <<>>
                   THEN "importScene: true" ELSE "importScene: false")
    /\ UNCHANGED <<viewVars, storageVars, now, canvasVars, exportVars>>

NextLoad ==
    \/ LoadAndNote
    \/ ImportAndNote
    \/ PlaceOnCanvas /\ Noted("drop")
    \/ ChangeGridSize /\ Noted("grid") /\ UNCHANGED <<canvasVars, exportVars>>
    \/ ConfirmClearScene /\ Noted("clear") /\ UNCHANGED <<canvasVars, exportVars>>
    \/ KeyUndo /\ Noted("undo") /\ UNCHANGED <<canvasVars, exportVars>>

SpecLoad == InitStore /\ [][NextLoad]_vars

\* ------------------------------------------------ undo and redo after a load
\* script holds the call made last, the collection it left, and the call made
\* before it
NotedAfter(op) ==
    script' = <<[op |-> op, after |-> elements', undefined |-> elementsUndefined',
                 before |-> IF script = <<>> THEN "" ELSE script[1].op]>>

NextReload ==
    \/ /\ Mounted
       /\ \E name \in SlotNames :
             /\ loadScene(name)
             /\ NotedAfter(IF loadSceneFromLocalStorage(name) # <<>>
                           THEN "loadScene: true" ELSE "loadScene: false")
       /\ UNCHANGED <<viewVars, storageVars, now, canvasVars, exportVars>>
    \/ /\ Mounted
       /\ \E file \in ImportFiles :
             /\ importScene(file)
             /\ NotedAfter(IF importSceneFromJSON(file) # <<>>
                           THEN "importScene: true" ELSE "importScene: false")
       /\ UNCHANGED <<viewVars, storageVars, now, canvasVars, exportVars>>
    \/ PlaceOnCanvas /\ NotedAfter("drop")
    \/ KeyUndo /\ NotedAfter("undo") /\ UNCHANGED <<canvasVars, exportVars>>
    \/ KeyRedo /\ NotedAfter("redo") /\ UNCHANGED <<canvasVars, exportVars>>

SpecReload == InitStore /\ [][NextReload]_vars

\* ------------------------------------------------------------ the exports
\* IsometricCanvas registers its element with the context in a mount effect,
\* before any event can reach the export dialog.
canvasRef == TRUE

ExportFormats == {"png", "jpeg", "json"}

\* handleExportScene.  exportSceneJSON returns a boolean (false when building
\* the download throws); exportSceneImage is an async function, so what
\* handleExportScene receives from it is a promise, which counts as true
\* whatever it resolves to later.  With a canvas registered the call starts
\* html2canvas.  script gets an entry for the request: the toast it showed
\* and how the export ended, "pending" while html2canvas has not settled.
handleExportScene(jsonThrows) ==
    LET isJson == exportFormat = "json"
        success == IF isJson THEN ~jsonThrows ELSE TRUE
        outcome == IF isJson THEN (IF jsonThrows THEN "failed" ELSE "done")
                   ELSE IF canvasRef THEN "pending" ELSE "failed"
    IN /\ pendingExports' = IF ~isJson /\ canvasRef
                            THEN pendingExports + 1 ELSE pendingExports
       /\ toast' = IF success THEN "success" ELSE "error"
       /\ isExportModalOpen' = IF success THEN FALSE ELSE isExportModalOpen
       /\ script' = Append(script, [op |-> "export", format |-> exportFormat,
                                    toast |-> toast', outcome |-> outcome])
       /\ UNCHANGED exportFormat

\* html2canvas settles for the request of entry i: exportSceneAsImage returns
\* true after the download, or false from its catch; nobody reads the value.
exportSceneAsImageSettles(i, rejected) ==
    /\ pendingExports' = pendingExports - 1
    /\ script' = [script EXCEPT ![i].outcome = IF rejected THEN "failed" ELSE "done"]
    /\ UNCHANGED <<isExportModalOpen, exportFormat, toast>>

OpenExportModal ==
    /\ Mounted
    /\ ~isExportModalOpen
    /\ isExportModalOpen' = TRUE
    /\ UNCHANGED <<exportFormat, pendingExports, toast, script>>
    /\ UNCHANGED <<sceneVars, viewVars, storageVars, now, canvasVars>>

CloseExportModal ==
    /\ Mounted
    /\ isExportModalOpen
    /\ isExportModalOpen' = FALSE
    /\ UNCHANGED <<exportFormat, pendingExports, toast, script>>
    /\ UNCHANGED <<sceneVars, viewVars, storageVars, now, canvasVars>>

SetExportFormat ==
    /\ Mounted
    /\ isExportModalOpen
    /\ \E format \in ExportFormats \ {exportFormat} : exportFormat' = format
    /\ UNCHANGED <<isExportModalOpen, pendingExports, toast, script>>
    /\ UNCHANGED <<sceneVars, viewVars, storageVars, now, canvasVars>>

ClickExport ==
    /\ Mounted
    /\ isExportModalOpen
    /\ pendingExports < MaxExports
    /\ Len(script) < MaxExportLog
    /\ \E jsonThrows \in BOOLEAN : handleExportScene(jsonThrows)
    /\ UNCHANGED <<sceneVars, viewVars, storageVars, now, canvasVars>>

ExportSettles ==
    /\ \E i \in 1..Len(script), rejected \in BOOLEAN :
          /\ script[i].outcome = "pending"
          /\ exportSceneAsImageSettles(i, rejected)
    /\ UNCHANGED <<sceneVars, viewVars, storageVars, now, canvasVars>>

NextExport ==
    \/ OpenExportModal
    \/ CloseExportModal
    \/ SetExportFormat
    \/ ClickExport
    \/ ExportSettles
    \/ PlaceOnCanvas /\ UNCHANGED <<script, exportVars>>

SpecExport == Init /\ [][NextExport]_vars

\* ------------------------------------------- the grid functions on their own
\* The three functions of the grid utilities applied to chosen inputs.  script
\* is the worksheet of one computation: the function under study, its input,
\* the tile size as the doubles its decimal literals denote, and the results
\* of the applications made so far.
MaxCell == 3
PointStep == 16

\* tile sizes as decimal literals: the default 64 x 32 and two sizes that a
\* scene file can carry, since validateSceneData asks only for numbers
TileLiterals ==
    { [width |-> [n |-> 64, d |-> 1], height |-> [n |-> 32, d |-> 1]],
      [width |-> [n |-> 304, d |-> 10], height |-> [n |-> 152, d |-> 10]],
      [width |-> [n |-> 64, d |-> 10], height |-> [n |-> 32, d |-> 10]] }

GridCells == (-MaxCell..MaxCell) \X (-MaxCell..MaxCell)

ScreenPoints == { <<i * PointStep, j * PointStep>> : i, j \in -MaxCell..MaxCell }

Worksheet(fn, input, tile) ==
    [fn |-> fn, input |-> input, literal |-> tile,
     tileWidth |-> DoubleOfDecimal(tile.width.n, tile.width.d),
     tileHeight |-> DoubleOfDecimal(tile.height.n, tile.height.d),
     results |-> <<>>]

InitGrid ==
    /\ InitProgram
    /\ scenesIndex = StoredAtStart.index
    /\ sceneSlots = StoredAtStart.slots
    /\ script \in { Worksheet("roundTrip", c, t) : c \in GridCells, t \in TileLiterals }
              \cup { Worksheet("snapToGrid", p, t) : p \in ScreenPoints, t \in TileLiterals }

SceneUntouched == UNCHANGED <<sceneVars, viewVars, storageVars, now, canvasVars, exportVars>>

\* isometricToScreen(gx, gy, tw, th)
ApplyIsometricToScreen ==
    /\ script.fn = "roundTrip"
    /\ script.results = <<>>
    /\ script' = [script EXCEPT !.results =
          <<isometricToScreenDouble(script.input[1], script.input[2],
                                    script.tileWidth, script.tileHeight)>>]
    /\ SceneUntouched

\* screenToIsometric(screen.x, screen.y, tw, th) of the point just computed
ApplyScreenToIsometric ==
    /\ script.fn = "roundTrip"
    /\ Len(script.results) = 1
    /\ script' = [script EXCEPT !.results =
          Append(@, screenToIsometricDouble(script.results[1].x, script.results[1].y,
                                            script.tileWidth, script.tileHeight))]
    /\ SceneUntouched

\* snapToGrid(x, y, tw, th) of the input point
ApplySnapToGrid ==
    /\ script.fn = "snapToGrid"
    /\ script.results = <<>>
    /\ script' = [script EXCEPT !.results =
          <<snapToGrid(DoubleOfInt(script.input[1]), DoubleOfInt(script.input[2]),
                       script.tileWidth, script.tileHeight)>>]
    /\ SceneUntouched

\* snapToGrid of the point that snapToGrid returned
ApplySnapToGridAgain ==
    /\ script.fn = "snapToGrid"
    /\ Len(script.results) = 1
    /\ script' = [script EXCEPT !.results =
          Append(@, snapToGrid(script.results[1].x, script.results[1].y,
                               script.tileWidth, script.tileHeight))]
    /\ SceneUntouched

NextGrid ==
    \/ ApplyIsometricToScreen
    \/ ApplyScreenToIsometric
    \/ ApplySnapToGrid
    \/ ApplySnapToGridAgain

SpecGrid == InitGrid /\ [][NextGrid]_vars

\* ------------------------------------------------------ the rotate buttons
\* Elements are dropped on the canvas and moved, one is selected and turned
\* with the two rotate buttons of ElementControls.
NextRotate ==
    \/ Tick /\ UNCHANGED idle
    \/ DragEnd /\ UNCHANGED idle
    \/ ClickElement /\ UNCHANGED idle
    \/ Rotate /\ UNCHANGED idle

SpecRotate == Init /\ [][NextRotate]_vars

\* ===================================================================== claims
Last(arr) == arr[Len(arr)]

\* C1: in every reachable state the live element collection is the history
\* entry at the cursor, history[historyIndex].
C1_LiveIsHistoryAtCursor ==
    IF HasEntry(historyIndex)
    THEN ~elementsUndefined /\ elements = Entry(historyIndex)
    ELSE elementsUndefined

\* C2: in every reachable state 0 <= historyIndex < history.length.
C2_CursorInRange == 0 <= historyIndex /\ historyIndex < Len(history)

\* C3: from the initial state, N history-recording mutations followed by N
\* undos leave the empty collection, one more undo changes nothing, and N
\* redos after that give back the collection left by the N-th mutation.
C3_UndoRedoRoundTrip ==
    LET n == Count("record")
        u == Count("undo")
        r == Count("redo")
    IN /\ (n >= 1 /\ u = n /\ r = 0) => (~elementsUndefined /\ elements = <<>>)
       /\ (n >= 1 /\ u = n + 1 /\ r = 0) =>
             (~elementsUndefined /\ elements = <<>>
              /\ script[n + u] = [script[n + u - 1] EXCEPT !.op = "undo"])
       /\ (n >= 1 /\ u = n + 1 /\ r = n) =>
             (~elementsUndefined /\ elements = script[n].after)

\* C4: a mutation recorded while the cursor is at c drops the entries after c,
\* appends the new snapshot and moves the cursor onto it (so that a redo after
\* add, add, undo, add finds nothing to restore).
C4_RecordTruncatesAndAppends ==
    [][(DragEnd \/ KeyDelete \/ KeyDuplicate \/ ConfirmClearScene)
         => /\ history' = Append(Slice0(history, historyIndex + 1), elements')
            /\ historyIndex' = Len(history') - 1]_vars

\* C5: undo at cursor 0 and redo at the last entry change nothing; anywhere
\* else they move the cursor by one, make the snapshot at the new cursor the
\* live collection and leave the history sequence as it was.
C5_UndoRedoContract ==
    [][/\ KeyUndo =>
            IF historyIndex = 0
            THEN UNCHANGED <<elements, elementsUndefined, history, historyIndex, sceneModified>>
            ELSE /\ historyIndex' = historyIndex - 1
                 /\ history' = history
                 /\ HasEntry(historyIndex - 1)
                 /\ ~elementsUndefined'
                 /\ elements' = Entry(historyIndex - 1)
       /\ KeyRedo =>
            IF historyIndex = Len(history) - 1
            THEN UNCHANGED <<elements, elementsUndefined, history, historyIndex, sceneModified>>
            ELSE /\ historyIndex' = historyIndex + 1
                 /\ history' = history
                 /\ HasEntry(historyIndex + 1)
                 /\ ~elementsUndefined'
                 /\ elements' = Entry(historyIndex + 1)]_vars

\* C6: the ids that addElement and duplicateElement assign never repeat, so
\* the ids of the live elements are pairwise distinct in every reachable state.
C6_LiveIdsDistinct == Cardinality(Ids(elements)) = Len(elements)

\* the drag-move of an element whose id is id
MoveCall(id) ==
    \E p \in Pointers :
        updateElement(id, [position |-> calculateGridPosition(p.clientX, p.clientY)])

C8_SelectionIsLive ==
    selectedElementId = NULL \/ selectedElementId \in Ids(elements)

\* C9: duplicateElement(id) for a live id appends one copy of the source with
\* a new id, distinct from all live ids, and position + (1,1), selects it and
\* records one history entry; for an id that is not live it changes nothing.
C9_DuplicateContract ==
    [][KeyDuplicate =>
         IF selectedElementId \in Ids(elements)
         THEN LET source == elements[FindIndex(elements, selectedElementId)]
                  copy == Last(elements')
              IN /\ elements' = Append(elements, copy)
                 /\ copy.id \notin Ids(elements)
                 /\ copy = [source EXCEPT !.id = copy.id,
                               !.position = [x |-> source.position.x + 1,
                                             y |-> source.position.y + 1]]
                 /\ selectedElementId' = copy.id
                 /\ historyIndex' = historyIndex + 1
                 /\ Last(history') = elements'
         ELSE UNCHANGED sceneVars]_vars

InGrid(position) ==
    /\ 0 <= position.x /\ position.x < gridSize.width
    /\ 0 <= position.y /\ position.y < gridSize.height

\* C10: the position stored by a drag-place or a drag-move lies in the grid,
\* 0 <= x < gridWidth and 0 <= y < gridHeight, whatever the pointer position,
\* pan offset, zoom level and grid configuration.
C10_DragPositionInGrid ==
    [][\A event \in DragEventsAt(WidePointers) :
          (event.over /\ handleDragEnd(event)) =>
             IF event.isNew
             THEN event.type # "" => InGrid(Last(elements').position)
             ELSE \A i \in 1..Len(elements') :
                     elements'[i].id = event.id => InGrid(elements'[i].position)]_vars
\* C11: a drag released over a drop surface stores the grid cell of the
\* pointer position at the release (where the drag started plus how far it
\* moved), for a placed element and for a moved one.
ReleasePoint(event) ==
    [clientX |-> event.activatorEvent.clientX + event.delta.x,
     clientY |-> event.activatorEvent.clientY + event.delta.y]

C11_DropAtReleasePoint ==
    [][\A event \in DragEventsAt(Pointers) :
          (event.over /\ handleDragEnd(event)) =>
             LET release == calculateGridPosition(ReleasePoint(event).clientX,
                                                  ReleasePoint(event).clientY)
             IN IF event.isNew
                THEN event.type # "" => Last(elements').position = release
                ELSE \A i \in 1..Len(elements') :
                        elements'[i].id = event.id => elements'[i].position = release]_vars

\* C12: a drag released over no drop surface, or of an item that carries no
\* element type (palette item) or no element id (placed element), changes
\* neither the elements nor the history, the cursor, the selection or the
\* modified flag.
C12_AbortedDragChangesNothing ==
    [][DropAborted =>
         UNCHANGED <<elements, elementsUndefined, history, historyIndex,
                     selectedElementId, sceneModified>>]_vars

\* C12 witness: the call made last is an aborted drag, in a scene that holds
\* an element, has a selection and is marked modified.
C12_AbortedDragHappened ==
    /\ script # <<>> /\ script[1].op = "abort"
    /\ elements # <<>> /\ selectedElementId # NULL /\ sceneModified
C14_ViewIsNotUndoable ==
    [][/\ (KeyZoomIn \/ KeyZoomOut \/ KeyResetView \/ KeyPan \/ KeyToggleGrid
             \/ ClickElement \/ ClickCanvas) =>
             UNCHANGED <<elements, elementsUndefined, history, historyIndex>>
       /\ (KeyUndo \/ KeyRedo) => UNCHANGED <<zoom, offset>>]_vars

\* C14 witness: the zoom, the offset, the grid switch and the selection have
\* all been changed and an undo has gone back from the second of two history
\* entries to the first; the view is still the changed one.
C14_ViewChangedAndUndone ==
    /\ zoom # InitZoom /\ offset # [x |-> 0, y |-> 0] /\ ~showGrid
    /\ selectedElementId # NULL
    /\ Len(history) = 2 /\ historyIndex = 0
    /\ elements = <<StoredElement>> /\ sceneModified
\* C15: whatever the zoom controls do (wheel steps of 0.05, key and button
\* steps of 0.1, the resets, a new scene), in any order and number, the zoom
\* stays within [0.5, 2.0].
C15_ZoomInRange == MinZoom <= zoom /\ zoom <= MaxZoom

\* C15 witness: the zoom is at its upper end after an odd number of wheel
\* steps (which moved the offset by one pixel) and key or button steps, the
\* last of which was cut short by the clamp.
C15_ZoomAtUpperEnd == zoom = MaxZoom /\ offset = [x |-> -1, y |-> 0]
\* C16: in every reachable state the grid has a positive width and height and
\* the tiles have a positive width and height: a size change, a load or an
\* import that carries a zero or negative dimension is turned down.
C16_GridConfigPositive ==
    /\ gridSize.width > 0 /\ gridSize.height > 0
    /\ tileSize.width > 0 /\ tileSize.height > 0

C19_LoadRestoresSavedScene ==
    [][\A name \in SlotNames :
          (/\ script # <<>> /\ script[1].op = name
           /\ loadSceneFromLocalStorage(name) # <<>>
           /\ loadScene(name))
          => /\ elements' = script[1].after
             /\ gridSize' = script[1].grid
             /\ tileSize' = script[1].tile]_vars

\* C20: after any saves and deletes, also those in which a write to the
\* storage throws part-way through, the slot index names exactly the names
\* under which a scene text is stored, and names each of them once.
C20_IndexNamesStoredScenes ==
    /\ IndexNames = {name \in SlotNames : sceneSlots[name] # <<>>}
    /\ Len(scenesIndex) = Cardinality(IndexNames)

\* what is stored under a name cannot be loaded: nothing is stored, the text
\* is not JSON, or its elements are not an array
SlotFails(name) ==
    \/ sceneSlots[name] = <<>>
    \/ ~sceneSlots[name][1].parses
    \/ ~sceneSlots[name][1].data.isArray
FileFails(file) == ~file.parses \/ ~file.data.isArray

\* C18: a loadScene of a name under which nothing is stored, or a text that
\* is not JSON, or a blob whose elements are not an array, and an importScene
\* of a file of the latter two kinds, leaves the elements, the grid and tile
\* sizes, the history, the cursor, the scene name and the modified flag as
\* they were and returns false to its caller (no exception leaves the call):
\* a call that returned false changed none of them, and a call returns true
\* only for a slot or a file that can be loaded.
C18_FailedLoadLeavesScene ==
    [][/\ \A name \in SlotNames :
             (SlotFails(name) /\ loadScene(name)) =>
                UNCHANGED <<elements, elementsUndefined, gridSize, tileSize,
                            history, historyIndex, sceneName, sceneModified>>
       /\ \A file \in ImportFiles :
             (FileFails(file) /\ importScene(file)) =>
                UNCHANGED <<elements, elementsUndefined, gridSize, tileSize,
                            history, historyIndex, sceneName, sceneModified>>
       /\ (script' # script /\ script'[1].op \in {"loadScene: false", "importScene: false"})
            => UNCHANGED <<elements, elementsUndefined, gridSize, tileSize,
                           history, historyIndex, sceneName, sceneModified>>
       /\ (LoadAndNote /\ script'[1].op = "loadScene: true")
            => \E name \in SlotNames : ~SlotFails(name) /\ loadScene(name)
       /\ (ImportAndNote /\ script'[1].op = "importScene: true")
            => \E file \in ImportFiles : ~FileFails(file) /\ importScene(file)]_vars

\* C18 witness: a loadScene has just returned false for "B", under which a
\* JSON text without an element array is stored, in a scene that holds an
\* element on a 2 x 3 grid and is marked as modified.
C18_InvalidSlotRefused ==
    /\ script # <<>> /\ script[1].op = "loadScene: false"
    /\ sceneSlots["B"] # <<>> /\ JSONparse(sceneSlots["B"][1]) # <<>>
    /\ elements # <<>> /\ script[1].after = elements
    /\ gridSize.width = 2 /\ sceneModified

\* C21: at most one image export is in flight at any time: a request made
\* while html2canvas has not settled for an earlier one starts no second
\* rasterization.
C21_OneExportInFlight == pendingExports <= 1

\* C27: an export that failed (html2canvas rejected, no canvas was
\* registered, or building the JSON download threw) showed the error toast
\* and not the success toast.
C27_FailedExportShowsFailure ==
    \A i \in 1..Len(script) :
        (script[i].op = "export" /\ script[i].outcome = "failed")
            => script[i].toast = "error"

\* C22: for every whole grid cell (gx, gy), negative ones included, and every
\* positive tile size, screenToIsometric applied to the point that
\* isometricToScreen(gx, gy, tw, th) returns gives back exactly (gx, gy).
C22_RoundTripReturnsCell ==
    (script.fn = "roundTrip" /\ Len(script.results) = 2)
        => /\ script.results[2].x = script.input[1]
           /\ script.results[2].y = script.input[2]

\* C23: snapToGrid is idempotent: snapping the point that snapToGrid(x, y,
\* tw, th) returned gives the same point again.
C23_SnapToGridIdempotent ==
    (script.fn = "snapToGrid" /\ Len(script.results) = 2)
        => script.results[2] = script.results[1]

C25_ClearSceneRecords ==
    [][(Mounted /\ clearScene) =>
          /\ elements' = <<>>
          /\ selectedElementId' = NULL
          /\ history' = Append(Slice0(history, historyIndex + 1), <<>>)
          /\ historyIndex' = historyIndex + 1
          /\ history'[historyIndex'] = elements]_vars

\* C26: after any sequence of rotate-left (-90) and rotate-right (+90) on an
\* element that starts at rotation 0, the stored rotation is one of 0, 90,
\* 180, 270.
C26_RotationIsQuarterTurn ==
    Mounted => \A i \in DOMAIN elements : elements[i].rotation \in {0, 90, 180, 270}

\* C28: a pan gesture returns to Idle (isDragging = false) on every release
\* or cancellation - mouse up, touch end (which is also how the touch count
\* drops below two), touch cancel - and while Idle a pointer move does not
\* change the offset.
C28_ReleaseEndsPan ==
    [][/\ Noted("mouseUp") \/ Noted("touchEnd") \/ Noted("touchCancel")
            => ~isDragging'
       /\ (~isDragging /\ (Noted("mouseMove") \/ Noted("touchMove")))
            => offset' = offset]_vars

Loaded == {"loadScene: true", "importScene: true"}

\* C29: after a successful loadScene or importScene the history is exactly
\* one snapshot, the loaded element collection, with the cursor at 0; an
\* undo() or a redo() made right after it changes nothing, so that no state
\* from before the load comes back through undo.
C29_LoadResetsHistory ==
    [][/\ script'[1].op \in Loaded =>
            /\ history' = <<elements'>>
            /\ historyIndex' = 0
            /\ ~elementsUndefined'
       /\ (script # <<>> /\ script[1].op \in Loaded /\ script'[1].op \in {"undo", "redo"})
            => UNCHANGED sceneVars]_vars

\* an undo() was made right after a successful import, and the imported
\* collection is still there as the only snapshot
C29_UndoAfterImport ==
    /\ script # <<>> /\ script[1].op = "undo" /\ script[1].before = "importScene: true"
    /\ elements # <<>> /\ history = <<elements>> /\ historyIndex = 0

\* the field sets that the callers of updateElement pass: a rotation from
\* handleRotate, a position from handleDragEnd
UpdatesOffered ==
    {[rotation |-> r * 90] : r \in -3..3}
        \cup {[position |-> calculateGridPosition(p.clientX, p.clientY)] : p \in Pointers}

\* C30: updateElement(id, fields) for a live id changes only the given fields
\* of the one element whose id matches: the length and the order of the
\* collection, every other element, and the target's own id and unlisted
\* fields stay as they were.
C30_UpdateTouchesOneElement ==
    [][\A id \in Ids(elements) : \A updates \in UpdatesOffered :
          (Mounted /\ updateElement(id, updates)) =>
              \E k \in DOMAIN elements :
                  /\ elements[k].id = id
                  /\ Len(elements') = Len(elements)
                  /\ \A i \in DOMAIN elements :
                        elements'[i] = IF i = k THEN Merge(elements[k], updates)
                                       ELSE elements[i]
                  /\ elements'[k].id = id]_vars

====
